---- MODULE Spec2Model ----
(***************************************************************************)
(* A model of app.py: merge_docx_files (the splice of several .docx        *)
(* archives into one), the /merge request handler merge_documents that     *)
(* drives it over a shared /tmp file system, and the /upload handler       *)
(* upload_file that shares the bucket with it.                             *)
(*                                                                         *)
(* Text is a sequence of one-character strings over the characters of      *)
(* Latin-1 (U+0000 to U+00FF), so the substring searches, the slices and   *)
(* the "+ 8" of the code are computed on characters.  The bytes of a file  *)
(* are a sequence with one element for each character they encode in       *)
(* UTF-8, and one element such as "0xE9" for each byte that is part of no  *)
(* UTF-8 sequence.  A zip archive is the sequence of its members, each a   *)
(* name and bytes; a member name is the sequence of its components between *)
(* the "/" (so a name that ends in "/" has the last component "").         *)
(***************************************************************************)
EXTENDS Integers, Sequences, FiniteSets, TLC

(***************************************************************************)
(* Python's str operations, as the code uses them.                         *)
(***************************************************************************)

\* The characters str.strip(), str.rstrip() and str.split() remove, those
\* for which str.isspace() holds: \t \n \x0b \x0c \r \x1c \x1d \x1e \x1f,
\* the space, \x85 and \xa0.
Whitespace ==
    {" ", "\t", "\n", "\r", "\f", "", "", "", "", "",
     "", " "}

Min(a, b) == IF a < b THEN a ELSE b

Max(a, b) == IF a < b THEN b ELSE a

\* s[a:b] with Python's rules: a negative index counts from the end, both are
\* clipped to the string, and an empty range gives "".
Slice(s, a, b) ==
    LET n  == Len(s)
        lo == IF a < 0 THEN Max(n + a, 0) ELSE Min(a, n)
        hi == IF b < 0 THEN Max(n + b, 0) ELSE Min(b, n)
    IN  IF lo >= hi THEN << >> ELSE SubSeq(s, lo + 1, hi)

\* s[a:]
SliceFrom(s, a) == Slice(s, a, Len(s))

\* s[:b]
SliceTo(s, b) == Slice(s, 0, b)

\* Whether sub occurs in s at the 0-based offset p.
MatchAt(s, sub, p) ==
    /\ p >= 0
    /\ p + Len(sub) <= Len(s)
    /\ SubSeq(s, p + 1, p + Len(sub)) = sub

\* s.find(sub): the lowest offset of sub in s, or -1.
Find(s, sub) ==
    LET hits == {p \in 0..(Len(s) - Len(sub)) : MatchAt(s, sub, p)}
    IN  IF hits = {} THEN -1 ELSE CHOOSE p \in hits : \A q \in hits : p <= q

\* s.rfind(sub): the highest offset of sub in s, or -1.
RFind(s, sub) ==
    LET hits == {p \in 0..(Len(s) - Len(sub)) : MatchAt(s, sub, p)}
    IN  IF hits = {} THEN -1 ELSE CHOOSE p \in hits : \A q \in hits : q <= p

\* s.endswith(suffix)
EndsWith(s, suffix) ==
    /\ Len(suffix) <= Len(s)
    /\ SubSeq(s, Len(s) - Len(suffix) + 1, Len(s)) = suffix

\* s.rstrip()
RECURSIVE RStrip(_)
RStrip(s) ==
    IF s # << >> /\ s[Len(s)] \in Whitespace
    THEN RStrip(SubSeq(s, 1, Len(s) - 1))
    ELSE s

\* s.lstrip()
RECURSIVE LStrip(_)
LStrip(s) ==
    IF s # << >> /\ s[1] \in Whitespace THEN LStrip(Tail(s)) ELSE s

\* s.strip()
Strip(s) == LStrip(RStrip(s))

\* ''.join(parts)
RECURSIVE Join(_)
Join(parts) ==
    IF parts = << >> THEN << >> ELSE Head(parts) \o Join(Tail(parts))

\* Whether the bytes are UTF-8: open(path, 'r', encoding='utf-8').read()
\* raises UnicodeDecodeError when they are not.
Decodable(bytes) == \A i \in 1..Len(bytes) : Len(bytes[i]) = 1

\* open(path, 'r', encoding='utf-8').read() of bytes that are UTF-8: text
\* mode with universal newlines, which turns "\r\n" and a lone "\r" into
\* "\n".
ReadText(bytes) ==
    LET tagged == [i \in 1..Len(bytes) |->
                      <<bytes[i], IF i > 1 THEN bytes[i - 1] ELSE "">>]
        kept   == SelectSeq(tagged, LAMBDA t : ~(t[1] = "\n" /\ t[2] = "\r"))
    IN  [i \in 1..Len(kept) |-> IF kept[i][1] = "\r" THEN "\n" ELSE kept[i][1]]

\* open(path, 'w', encoding='utf-8').write(text): every character is
\* written as its UTF-8 bytes, and "\n" as os.linesep, which is "\n" on the
\* POSIX hosts the /tmp paths imply.
WriteText(text) == text

(***************************************************************************)
(* The markers of merge_docx_files.                                        *)
(***************************************************************************)

BODY_OPEN == <<"<","w",":","b","o","d","y",">">>

BODY_CLOSE == <<"<","/","w",":","b","o","d","y",">">>

SECT_OPEN == <<"<","w",":","s","e","c","t","P","r">>

SECT_CLOSE == <<"<","/","w",":","s","e","c","t","P","r",">">>

page_break ==
    <<"<","w",":","p",">","<","w",":","r",">","<","w",":","b","r"," ",
      "w",":","t","y","p","e","=","\"","p","a","g","e","\"","/",">",
      "<","/","w",":","r",">","<","/","w",":","p",">">>

\* The 8 of additional_xml[body_start + 8:body_end_pos].
BodyOpenLen == 8

\* len(file_paths) < 2, len(files) < 2
MinFiles == 2

\* The 'word', 'document.xml' of os.path.join(base_dir, 'word',
\* 'document.xml').
PRIMARY == <<"word", "document.xml">>

(***************************************************************************)
(* The pure steps of merge_docx_files.                                     *)
(***************************************************************************)

\* A mutant of InsufficientInputs: the comparison off by one.
InsufficientInputsOffByOne(n) == n < MinFiles - 1

\* len(file_paths) < 2 (line 32) and len(files) < 2 (line 95).
InsufficientInputs(n) == n < MinFiles

\* A mutant of AdditionalPaths: file_paths[1:2].
AdditionalPathsFirstOnly(file_paths) ==
    SubSeq(file_paths, 2, Min(2, Len(file_paths)))

\* file_paths[1:] of the loop header.
AdditionalPaths(file_paths) == Tail(file_paths)

\* A mutant of BaseInvalid: the comparison is left out.
BaseInvalidNever(pos) == FALSE

\* body_end == -1
BaseInvalid(pos) == pos = -1

\* A mutant of HasBody: "or" for "and".
HasBodyEither(body_start, body_end_pos) ==
    body_start # -1 \/ body_end_pos # -1

\* body_start != -1 and body_end_pos != -1
HasBody(body_start, body_end_pos) == body_start # -1 /\ body_end_pos # -1

\* additional_xml[body_start + 8:body_end_pos]
BodyContent(additional_xml, body_start, body_end_pos) ==
    Slice(additional_xml, body_start + BodyOpenLen, body_end_pos)

\* Lines 68-70: drop a trailing <w:sectPr ...</w:sectPr> and the white space
\* before it.
StripSectPr(body_content) ==
    LET last_sect == RFind(body_content, SECT_OPEN)
    IN  IF /\ last_sect # -1
           /\ EndsWith(Strip(SliceFrom(body_content, last_sect)), SECT_CLOSE)
        THEN RStrip(SliceTo(body_content, last_sect))
        ELSE body_content

\* A mutant of Contribution: the page break is missing.
ContributionNoBreak(additional_xml) ==
    LET body_start   == Find(additional_xml, BODY_OPEN)
        body_end_pos == RFind(additional_xml, BODY_CLOSE)
    IN  IF HasBody(body_start, body_end_pos)
        THEN <<StripSectPr(BodyContent(additional_xml, body_start, body_end_pos))>>
        ELSE << >>

\* Lines 62-73: what one additional document adds to merged_parts.
Contribution(additional_xml) ==
    LET body_start   == Find(additional_xml, BODY_OPEN)
        body_end_pos == RFind(additional_xml, BODY_CLOSE)
    IN  IF HasBody(body_start, body_end_pos)
        THEN <<page_break,
               StripSectPr(BodyContent(additional_xml, body_start, body_end_pos))>>
        ELSE << >>

(***************************************************************************)
(* File names: file.filename.lower().endswith('.docx') and                 *)
(* secure_filename(file.filename).                                         *)
(***************************************************************************)

\* The characters str.lower() changes, and what it changes them to.
UPPER ==
    <<"A","B","C","D","E","F","G","H","I","J","K","L","M",
      "N","O","P","Q","R","S","T","U","V","W","X","Y","Z",
      "À","Á","Â","Ã","Ä","Å","Æ","Ç","È","É","Ê","Ë","Ì",
      "Í","Î","Ï","Ð","Ñ","Ò","Ó","Ô","Õ","Ö","Ø","Ù","Ú",
      "Û","Ü","Ý","Þ">>

LOWER ==
    <<"a","b","c","d","e","f","g","h","i","j","k","l","m",
      "n","o","p","q","r","s","t","u","v","w","x","y","z",
      "à","á","â","ã","ä","å","æ","ç","è","é","ê","ë","ì",
      "í","î","ï","ð","ñ","ò","ó","ô","õ","ö","ø","ù","ú",
      "û","ü","ý","þ">>

ASCII_UPPER == <<"A","B","C","D","E","F","G","H","I","J","K","L","M",
                 "N","O","P","Q","R","S","T","U","V","W","X","Y","Z">>

ASCII_LOWER == <<"a","b","c","d","e","f","g","h","i","j","k","l","m",
                 "n","o","p","q","r","s","t","u","v","w","x","y","z">>

DIGITS == <<"0","1","2","3","4","5","6","7","8","9">>

Range(f) == {f[i] : i \in DOMAIN f}

\* str.lower()
Lower(s) ==
    [i \in 1..Len(s) |->
        IF s[i] \in Range(UPPER)
        THEN LOWER[CHOOSE k \in DOMAIN UPPER : UPPER[k] = s[i]]
        ELSE s[i]]

DOCX_EXT == <<".","d","o","c","x">>

\* not file.filename.lower().endswith('.docx') is the refusal of line 101.
IsDocx(filename) == EndsWith(Lower(filename), DOCX_EXT)

\* The characters U+0080 to U+00FF, and for each what
\* unicodedata.normalize("NFKD", ch).encode("ascii", "ignore") leaves of it.
NON_ASCII ==
    <<"","","","","","","","","","","","","","","","",
      "","","","","","","","","","","","","","","","",
      " ","¡","¢","£","¤","¥","¦","§","¨","©","ª","«","¬","­","®","¯",
      "°","±","²","³","´","µ","¶","·","¸","¹","º","»","¼","½","¾","¿",
      "À","Á","Â","Ã","Ä","Å","Æ","Ç","È","É","Ê","Ë","Ì","Í","Î","Ï",
      "Ð","Ñ","Ò","Ó","Ô","Õ","Ö","×","Ø","Ù","Ú","Û","Ü","Ý","Þ","ß",
      "à","á","â","ã","ä","å","æ","ç","è","é","ê","ë","ì","í","î","ï",
      "ð","ñ","ò","ó","ô","õ","ö","÷","ø","ù","ú","û","ü","ý","þ","ÿ">>

NFKD_ASCII ==
    <<<< >>,<< >>,<< >>,<< >>,<< >>,<< >>,<< >>,<< >>,
      << >>,<< >>,<< >>,<< >>,<< >>,<< >>,<< >>,<< >>,
      << >>,<< >>,<< >>,<< >>,<< >>,<< >>,<< >>,<< >>,
      << >>,<< >>,<< >>,<< >>,<< >>,<< >>,<< >>,<< >>,
      <<" ">>,<< >>,<< >>,<< >>,<< >>,<< >>,<< >>,<< >>,
      <<" ">>,<< >>,<<"a">>,<< >>,<< >>,<< >>,<< >>,<<" ">>,
      << >>,<< >>,<<"2">>,<<"3">>,<<" ">>,<< >>,<< >>,<< >>,
      <<" ">>,<<"1">>,<<"o">>,<< >>,<<"1","4">>,<<"1","2">>,<<"3","4">>,<< >>,
      <<"A">>,<<"A">>,<<"A">>,<<"A">>,<<"A">>,<<"A">>,<< >>,<<"C">>,
      <<"E">>,<<"E">>,<<"E">>,<<"E">>,<<"I">>,<<"I">>,<<"I">>,<<"I">>,
      << >>,<<"N">>,<<"O">>,<<"O">>,<<"O">>,<<"O">>,<<"O">>,<< >>,
      << >>,<<"U">>,<<"U">>,<<"U">>,<<"U">>,<<"Y">>,<< >>,<< >>,
      <<"a">>,<<"a">>,<<"a">>,<<"a">>,<<"a">>,<<"a">>,<< >>,<<"c">>,
      <<"e">>,<<"e">>,<<"e">>,<<"e">>,<<"i">>,<<"i">>,<<"i">>,<<"i">>,
      << >>,<<"n">>,<<"o">>,<<"o">>,<<"o">>,<<"o">>,<<"o">>,<< >>,
      << >>,<<"u">>,<<"u">>,<<"u">>,<<"u">>,<<"y">>,<< >>,<<"y">>>>

\* normalize("NFKD", filename).encode("ascii", "ignore").decode("ascii")
RECURSIVE AsciiFold(_)
AsciiFold(s) ==
    IF s = << >> THEN << >>
    ELSE (IF Head(s) \in Range(NON_ASCII)
          THEN NFKD_ASCII[CHOOSE k \in DOMAIN NON_ASCII : NON_ASCII[k] = Head(s)]
          ELSE <<Head(s)>>) \o AsciiFold(Tail(s))

\* s.strip("._")
RECURSIVE StripDots(_)
StripDots(s) ==
    IF s # << >> /\ s[1] \in {".", "_"} THEN StripDots(Tail(s))
    ELSE IF s # << >> /\ s[Len(s)] \in {".", "_"}
         THEN StripDots(SubSeq(s, 1, Len(s) - 1))
         ELSE s

\* s.split(): the words of s, the runs of characters that are no white space.
RECURSIVE Split(_)
Split(s) ==
    LET t    == LStrip(s)
        gaps == {i \in 1..Len(t) : t[i] \in Whitespace}
        n    == IF gaps = {} THEN Len(t)
                ELSE (CHOOSE i \in gaps : \A j \in gaps : i <= j) - 1
    IN  IF t = << >> THEN << >>
        ELSE <<SubSeq(t, 1, n)>> \o Split(SubSeq(t, n + 1, Len(t)))

\* sep.join(parts)
RECURSIVE JoinWith(_, _)
JoinWith(sep, parts) ==
    IF parts = << >> THEN << >>
    ELSE IF Len(parts) = 1 THEN parts[1]
         ELSE parts[1] \o sep \o JoinWith(sep, Tail(parts))

\* "_".join(s.split()): runs of white space become one "_", none at the ends.
JoinWords(s) == JoinWith(<<"_">>, Split(s))

\* werkzeug's secure_filename: the name is folded to ASCII, path separators
\* become spaces, words are joined by "_", characters outside [A-Za-z0-9_.-]
\* are dropped and leading and trailing "." and "_" are stripped.
secure_filename(filename) ==
    LET folded == AsciiFold(filename)
        spaced == [i \in 1..Len(folded) |->
                      IF folded[i] = "/" THEN " " ELSE folded[i]]
        joined == JoinWords(spaced)
        allowed == Range(ASCII_UPPER) \cup Range(ASCII_LOWER)
                   \cup Range(DIGITS) \cup {"_", ".", "-"}
    IN  StripDots(SelectSeq(joined, LAMBDA ch : ch \in allowed))

(***************************************************************************)
(* Files, archives and paths.                                              *)
(***************************************************************************)

\* A member of a zip archive.
ZipEntry(name, data) == [name |-> name, data |-> data]

NoEntries == << >>

\* The bytes of a file: a zip archive with its members, or bytes that are no
\* zip archive (zipfile.ZipFile raises BadZipFile on them).
NotZip == [zip |-> FALSE, entries |-> NoEntries]

Archive(entries) == [zip |-> TRUE, entries |-> entries]

NoUuid == <<0, 0>>

\* A path that names nothing: an unbound merged_path, a temp_dir not yet made.
NoPath == <<"none", NoUuid, << >>>>

\* A mutant of TempPath: the uuid is missing from the name.
TempPathNoUuid(uuid, filename) == <<"upload", NoUuid, secure_filename(filename)>>

\* f"/tmp/{uuid.uuid4()}_{secure_filename(file.filename)}"
TempPath(uuid, filename) == <<"upload", uuid, secure_filename(filename)>>

\* f"/tmp/merged_{uuid.uuid4()}.docx"
OutputPath(uuid) == <<"merged", uuid, << >>>>

\* The directory tempfile.TemporaryDirectory() makes: mkdtemp never returns
\* a name that exists.
TempDir(uuid) == <<"tmpdir", uuid, << >>>>

\* os.path.join(temp_dir, "base")
BaseDir(temp_dir) == <<temp_dir, <<"base", NoUuid>>>>

\* A mutant of AdditionalDir: every archive is extracted into base_dir.
AdditionalDirIsBase(temp_dir, uuid) == <<temp_dir, <<"base", NoUuid>>>>

\* os.path.join(temp_dir, f"doc_{uuid.uuid4()}")
AdditionalDir(temp_dir, uuid) == <<temp_dir, <<"doc", uuid>>>>

\* os.path.join(dir, arcname): the path below an extraction directory, by
\* its components; Member(dir, << >>) is the directory itself.
Member(dir, arcname) == <<dir[1], dir[2], arcname>>

\* A path a direct caller of merge_docx_files passes in.
CallerPath(c, i, filename) == <<"caller", <<c, i>>, filename>>

Write(f, k, v) == (k :> v) @@ f

Remove(f, S) == [k \in DOMAIN f \ S |-> f[k]]

\* What is at a path below a temporary directory: a file with its bytes, or
\* a directory.
File(data) == [dir |-> FALSE, data |-> data]

Directory == [dir |-> TRUE, data |-> << >>]

IsFile(tr, k) == k \in DOMAIN tr /\ ~tr[k].dir

IsDirectory(tr, k) == k \in DOMAIN tr /\ tr[k].dir

\* The directories above a path, by their components.
Uppers(arcname) == {SubSeq(arcname, 1, n) : n \in 0..(Len(arcname) - 1)}

\* zipfile's invalid_path_parts = ('', os.path.curdir, os.path.pardir)
invalid_path_parts == {"", ".", ".."}

\* The arcname of _extract_member: the member's name without its empty, "."
\* and ".." components, which makes an absolute name relative and keeps the
\* member below the directory it is extracted to.
Arcname(name) == SelectSeq(name, LAMBDA x : x \notin invalid_path_parts)

\* The member name '': its one component is the empty one.
EMPTY_NAME == <<"">>

\* ZipInfo.is_dir(), self.filename[-1] == '/': whether the name ends in "/",
\* and IndexError for the name ''.
is_dir(name) ==
    IF name = EMPTY_NAME THEN "IndexError"
    ELSE IF name[Len(name)] = "" THEN "True" ELSE "False"

\* ZipFile.getinfo(name): of the members of one name, the last.
getinfo(entries, name) ==
    entries[CHOOSE i \in 1..Len(entries) :
               /\ entries[i].name = name
               /\ \A j \in (i + 1)..Len(entries) : entries[j].name # name]

\* ZipFile._extract_member: the directories above the target are made
\* (NotADirectoryError when one of them is a file); is_dir() is asked, which
\* raises IndexError for the name ''; a directory member becomes a
\* directory (FileExistsError when a file is there), any other a file with
\* the member's bytes (IsADirectoryError when a directory is there).
ExtractMember(tr, dir, entries, i) ==
    LET name       == entries[i].name
        arcname    == Arcname(name)
        targetpath == Member(dir, arcname)
        upperdirs  == {Member(dir, p) : p \in Uppers(arcname)}
        made       == [k \in DOMAIN tr \cup upperdirs |->
                          IF k \in DOMAIN tr THEN tr[k] ELSE Directory]
    IN  IF \E u \in upperdirs : IsFile(tr, u)
        THEN [tree |-> tr, err |-> "NotADirectoryError"]
        ELSE IF is_dir(name) = "IndexError"
        THEN [tree |-> made, err |-> "IndexError"]
        ELSE IF is_dir(name) = "True"
        THEN IF IsDirectory(made, targetpath)
             THEN [tree |-> made, err |-> "none"]
             ELSE IF IsFile(made, targetpath)
             THEN [tree |-> made, err |-> "FileExistsError"]
             ELSE [tree |-> Write(made, targetpath, Directory),
                   err |-> "none"]
        ELSE IF IsDirectory(made, targetpath)
             THEN [tree |-> made, err |-> "IsADirectoryError"]
             ELSE [tree |-> Write(made, targetpath,
                                  File(getinfo(entries, name).data)),
                   err |-> "none"]

\* zip_ref.extractall(dir): the members are extracted in the order of the
\* archive, up to the first that fails.
RECURSIVE ExtractFrom(_, _, _, _)
ExtractFrom(tr, dir, entries, i) ==
    IF i > Len(entries) THEN [tree |-> tr, err |-> "none"]
    ELSE LET r == ExtractMember(tr, dir, entries, i)
         IN  IF r.err # "none" THEN r
             ELSE ExtractFrom(r.tree, dir, entries, i + 1)

ExtractAll(tr, dir, entries) == ExtractFrom(tr, dir, entries, 1)

\* What open(path) raises.
OpenError(tr, k) ==
    IF k \in DOMAIN tr
    THEN (IF tr[k].dir THEN "IsADirectoryError" ELSE "none")
    ELSE IF \E p \in Uppers(k[3]) : IsFile(tr, <<k[1], k[2], p>>)
         THEN "NotADirectoryError"
         ELSE "FileNotFoundError"

\* The sequences that hold every element of S once.
Orders(S) ==
    {s \in [1..Cardinality(S) -> S] :
        \A i, j \in 1..Cardinality(S) : i # j => s[i] # s[j]}

\* The entries of the directory at p below dir that are files, or are
\* directories.
Listing(tr, dir, p, dirsWanted) ==
    {k[3] : k \in {j \in DOMAIN tr :
                      /\ j[1] = dir[1] /\ j[2] = dir[2]
                      /\ Len(j[3]) = Len(p) + 1
                      /\ SubSeq(j[3], 1, Len(p)) = p
                      /\ tr[j].dir = dirsWanted}}

\* Lines 82-86: the files os.walk finds below base_dir, by their path
\* relative to base_dir, in the orders it can find them in: the files of a
\* directory in the order of its listing, then each of its subdirectories
\* in the order of its listing.  A directory without files adds nothing.
RECURSIVE WalkFiles(_, _, _)
RECURSIVE WalkEach(_, _, _)
WalkFiles(tr, dir, p) ==
    IF ~IsDirectory(tr, Member(dir, p)) THEN {<< >>}
    ELSE {fs \o rest :
             fs \in Orders(Listing(tr, dir, p, FALSE)),
             rest \in UNION {WalkEach(tr, dir, ds) :
                                ds \in Orders(Listing(tr, dir, p, TRUE))}}

WalkEach(tr, dir, ds) ==
    IF ds = << >> THEN {<< >>}
    ELSE {a \o b : a \in WalkFiles(tr, dir, Head(ds)),
                   b \in WalkEach(tr, dir, Tail(ds))}

\* zipf.write(file_path, arcname) for each file of the walk.
Zipped(tr, dir, order) ==
    Archive([i \in 1..Len(order) |->
                ZipEntry(order[i], tr[Member(dir, order[i])].data)])

\* TemporaryDirectory.__exit__: the directory and all below it are removed.
RemoveTree(tr, temp_dir) == [k \in {j \in DOMAIN tr : j[1] # temp_dir} |-> tr[k]]

(***************************************************************************)
(* The inputs: documents, uploads and requests.                            *)
(***************************************************************************)

W_DOC_OPEN == <<"<","w",":","d","o","c","u","m","e","n","t",">">>

W_DOC_CLOSE == <<"<","/","w",":","d","o","c","u","m","e","n","t",">">>

SECT_BLOCK == SECT_OPEN \o <<">","S">> \o SECT_CLOSE

\* A document with a body that ends in its section properties.
XmlA == W_DOC_OPEN \o BODY_OPEN \o <<"A">> \o SECT_BLOCK \o BODY_CLOSE
        \o W_DOC_CLOSE

\* As Word writes it: a declaration, CR LF, the document.
XmlCrlf == <<"<","?","x","m","l","?",">","\r","\n">> \o W_DOC_OPEN
           \o BODY_OPEN \o <<"P">> \o BODY_CLOSE \o W_DOC_CLOSE

\* No closing body marker.
XmlNoClose == W_DOC_OPEN \o BODY_OPEN \o <<"Q">>

\* A closing body marker and no literal opening one.
XmlNoOpen == W_DOC_OPEN \o <<"R">> \o BODY_CLOSE \o W_DOC_CLOSE

XmlB == W_DOC_OPEN \o BODY_OPEN \o <<"B">> \o BODY_CLOSE \o W_DOC_CLOSE

\* White space before and after the trailing section properties: a space
\* and U+0085 before, U+00A0 and a line feed after.
XmlSect == BODY_OPEN \o <<"C"," ","">> \o SECT_BLOCK \o <<" ","\n">>
           \o BODY_CLOSE

\* Section properties that record a tracked change: a sectPr inside a
\* sectPrChange inside the trailing sectPr.
XmlNested ==
    BODY_OPEN \o <<"D">> \o SECT_OPEN \o <<">">>
    \o SECT_OPEN \o <<"C","h","a","n","g","e",">">>
    \o SECT_BLOCK
    \o <<"<","/","w",":","s","e","c","t","P","r","C","h","a","n","g","e",">">>
    \o SECT_CLOSE \o BODY_CLOSE

\* The body element under another namespace prefix.
XmlNoMarkers == <<"<","n",":","b","o","d","y",">","G",
                  "<","/","n",":","b","o","d","y",">">>

\* The closing marker before the opening one.
XmlReversed == BODY_CLOSE \o <<"H">> \o BODY_OPEN

\* A document in Latin-1, its body under another prefix: the byte 0xE9 is
\* no UTF-8.
XmlLatin1 == <<"<","n",":","b","o","d","y",">","c","a","f","0xE9",
               "<","/","n",":","b","o","d","y",">">>

BaseParts == <<ZipEntry(<<"word", "styles.xml">>, <<"s","\r","\n">>),
               ZipEntry(<<"[Content_Types].xml">>, <<"c">>)>>

OtherParts == <<ZipEntry(<<"word", "styles.xml">>, <<"t">>),
                ZipEntry(<<"word", "media", "image1.png">>, <<"i">>)>>

\* Members under names that are no plain relative paths: an absolute name,
\* a name that climbs out of the directory, and a directory.
OddParts == <<ZipEntry(<<"", "word", "styles.xml">>, <<"s">>),
              ZipEntry(<<"..", "evil.txt">>, <<"e">>),
              ZipEntry(<<"customXml", "">>, << >>)>>

\* Members that aim at the base document's directory from an additional
\* archive.
TraversalParts == <<ZipEntry(<<"..", "base", "word", "styles.xml">>, <<"v">>),
                    ZipEntry(<<"", "tmp", "x">>, <<"w">>)>>

\* A member of the name '' after the others.
EmptyNameParts == <<ZipEntry(<<"word", "styles.xml">>, <<"u">>),
                    ZipEntry(EMPTY_NAME, <<"n">>)>>

\* A member "word" that is a file, before the primary part below it.
ClashParts == <<ZipEntry(<<"word">>, <<"f">>),
                ZipEntry(PRIMARY, XmlB)>>

Docx(xml, parts) == Archive(<<ZipEntry(PRIMARY, xml)>> \o parts)

NAME_A == <<"a",".","d","o","c","x">>

NAME_UPPER == <<"m","y"," ","C",".","D","O","C","X">>

NAME_TXT == <<"n",".","t","x","t">>

Upload(filename, data) == [filename |-> filename, data |-> data]

FileA == Upload(NAME_A, Docx(XmlA, BaseParts))

FileCrlf == Upload(NAME_A, Docx(XmlCrlf, BaseParts))

FileNoClose == Upload(NAME_A, Docx(XmlNoClose, BaseParts))

FileNoOpen == Upload(NAME_A, Docx(XmlNoOpen, BaseParts))

FileB == Upload(NAME_A, Docx(XmlB, OtherParts))

FileSect == Upload(NAME_UPPER, Docx(XmlSect, OtherParts))

FileNested == Upload(NAME_A, Docx(XmlNested, OtherParts))

FileNoMarkers == Upload(NAME_A, Docx(XmlNoMarkers, OtherParts))

FileLatin1 == Upload(NAME_A, Docx(XmlLatin1, OtherParts))

FileOdd == Upload(NAME_A, Docx(XmlB, OddParts))

\* The markers in reverse, which makes the fragment empty, beside members
\* that aim at the base document's directory.
FileTraversal == Upload(NAME_A, Docx(XmlReversed, TraversalParts))

\* No closing body marker, and a member of the name ''.
FileEmptyName == Upload(NAME_A, Docx(XmlNoClose, EmptyNameParts))

FileClash == Upload(NAME_A, Archive(ClashParts))

FileCorrupt == Upload(NAME_A, NotZip)

FileNoPrimary == Upload(NAME_A, Archive(OtherParts))

FileTxt == Upload(NAME_TXT, Docx(XmlB, OtherParts))

\* An upload without a file name, which request.files gives as a file that
\* is false.
FileNoName == Upload(<< >>, NotZip)

\* The uploads tried as the first (base) document.
BaseFiles == {FileA, FileCrlf, FileNoClose, FileNoOpen, FileCorrupt,
              FileNoPrimary, FileLatin1, FileOdd, FileClash, FileEmptyName}

\* The uploads tried as an additional document.
AddFiles == {FileA, FileSect, FileNested, FileNoMarkers, FileNoClose,
             FileNoOpen, FileCorrupt, FileTxt, FileLatin1, FileTraversal,
             FileEmptyName}

\* The most files in one request.
MaxFiles == 3

RECURSIVE AddLists(_)
AddLists(n) ==
    IF n = 0 THEN {<< >>}
    ELSE {<<f>> \o t : f \in AddFiles, t \in AddLists(n - 1)}

FileLists ==
    {<< >>} \cup
    UNION {{<<b>> \o t : b \in BaseFiles, t \in AddLists(n)} :
              n \in 0..(MaxFiles - 1)}

\* request.files.get("file") of a request to /upload: no file, a file
\* without a name, a file.
UploadLists == {<< >>, <<FileNoName>>, <<FileSect>>}

\* app.config["MAX_CONTENT_LENGTH"] = 10 * 1024 * 1024
MAX_CONTENT_LENGTH == 10 * 1024 * 1024

\* The Content-Length of a request: the largest that is taken, and the
\* smallest that is not.
ContentLengths == {MAX_CONTENT_LENGTH, MAX_CONTENT_LENGTH + 1}

\* A direct call of merge_docx_files is no request and has no length.
NoContentLength == 0

\* A call is an HTTP request to /merge, a direct call of merge_docx_files,
\* or an HTTP request to /upload.
Requests ==
    [entry : {"http"}, files : FileLists, content_length : ContentLengths]
    \cup [entry : {"direct"}, files : FileLists,
          content_length : {NoContentLength}]
    \cup [entry : {"upload"}, files : UploadLists,
          content_length : ContentLengths]

\* The requests of the concurrent specification: uploads of the same name
\* with different contents, a direct call, and a request to /upload.
ConcRequests ==
    <<[entry |-> "http", files |-> <<FileA, FileB>>,
       content_length |-> MAX_CONTENT_LENGTH],
      [entry |-> "http", files |-> <<FileCrlf, FileSect>>,
       content_length |-> MAX_CONTENT_LENGTH],
      [entry |-> "direct", files |-> <<FileB, FileA>>,
       content_length |-> NoContentLength],
      [entry |-> "upload", files |-> <<FileSect>>,
       content_length |-> MAX_CONTENT_LENGTH]>>

\* The most calls running at once.
MaxCalls == 2

(***************************************************************************)
(* The state.                                                              *)
(***************************************************************************)

VARIABLES
    entry,              \* per call: "http" (/merge), "direct"
                        \*   (merge_docx_files) or "upload" (/upload)
    files,              \* per call: request.files.getlist("files"), what the
                        \*   caller's paths hold, or request.files.get("file")
    content_length,     \* per call: the Content-Length of the request
    supabase,           \* whether the module-level client could be made
    pc,                 \* per call: where it stands
    idx,                \* per call: the position of the running for loop
    uuids,              \* per call: how many uuid4 / mkdtemp names it has drawn
    temp_files,         \* merge_documents: the saved uploads
    merged_path,        \* merge_documents: NoPath while unbound
    upload_to_supabase, \* merge_documents: the form field
    response,           \* merge_documents, upload_file: what was returned
    file_paths,         \* merge_docx_files: its argument
    output_path,        \* merge_docx_files
    temp_dir,           \* merge_docx_files
    base_xml,           \* merge_docx_files
    body_end,           \* merge_docx_files
    merged_parts,       \* merge_docx_files
    exc,                \* merge_docx_files: the exception it exits with
    tmp,                \* the files of /tmp: path -> bytes
    tree,               \* the files and directories below the temporary
                        \*   directories
    dirs,               \* the temporary directories that exist
    store,              \* the objects uploaded to the bucket
    owner,              \* history: path -> the call that first made it
    touched,            \* history: per call, the <<operation, path>> it did
    fault               \* history: per call, the I/O failure it met

vars == <<entry, files, content_length, supabase, pc, idx, uuids, temp_files, merged_path,
          upload_to_supabase, response, file_paths, output_path, temp_dir,
          base_xml, body_end, merged_parts, exc, tmp, tree, dirs, store,
          owner, touched, fault>>

inputVars == <<entry, files, content_length, supabase>>

handlerVars == <<temp_files, merged_path, upload_to_supabase, response>>

mergeVars == <<file_paths, output_path, temp_dir, base_xml, body_end,
               merged_parts, exc>>

Calls == DOMAIN pc

NoResponse == [status |-> 0, error |-> "", body |-> NotZip]

\* error_response(message, status_code)
error_response(message, status_code) ==
    [status |-> status_code, error |-> message, body |-> NotZip]

\* jsonify({"success": True, "url": ..., "filename": ...})
success_response == [status |-> 200, error |-> "", body |-> NotZip]

\* Whether request.files raises RequestEntityTooLarge: the Content-Length
\* is over MAX_CONTENT_LENGTH.
RequestEntityTooLarge(length) == length > MAX_CONTENT_LENGTH

\* handle_large_file(e), lines 164-166
handle_large_file == error_response("File too large (max 10MB)", 413)

\* The next uuid4() (or mkdtemp name) of call c, and the one after it: no two
\* draws give the same value.
Uuid(c) == <<c, uuids[c] + 1>>

Uuid2(c) == <<c, uuids[c] + 2>>

MERGED_NAME == <<"m","e","r","g","e","d",".","d","o","c","x">>

\* An object of the bucket: f"{uuid.uuid4()}_merged.docx" or
\* f"{uuid.uuid4()}_{secure_filename(file.filename)}", and its bytes.
StoreObject(uuid, name, data) == [filename |-> <<uuid, name>>, data |-> data]

Own(ow, path, c) == IF path \in DOMAIN ow THEN ow ELSE Write(ow, path, c)

Touch(c, ops) == [touched EXCEPT ![c] = @ \cup ops]

InitCalls(req) ==
    LET given ==
            UNION {{<<c, i>> : i \in 1..Len(req[c].files)} :
                      c \in {d \in DOMAIN req : req[d].entry = "direct"}}
        PathOf(ci) == CallerPath(ci[1], ci[2], req[ci[1]].files[ci[2]].filename)
    IN  /\ entry = [c \in DOMAIN req |-> req[c].entry]
        /\ files = [c \in DOMAIN req |-> req[c].files]
        /\ content_length = [c \in DOMAIN req |-> req[c].content_length]
        /\ supabase \in BOOLEAN
        /\ pc = [c \in DOMAIN req |->
                    IF req[c].entry = "http" THEN "request"
                    ELSE IF req[c].entry = "upload" THEN "upload"
                    ELSE "merge"]
        /\ idx = [c \in DOMAIN req |-> 0]
        /\ uuids = [c \in DOMAIN req |-> 0]
        /\ temp_files = [c \in DOMAIN req |-> << >>]
        /\ merged_path = [c \in DOMAIN req |-> NoPath]
        /\ upload_to_supabase = [c \in DOMAIN req |-> FALSE]
        /\ response = [c \in DOMAIN req |-> NoResponse]
        /\ file_paths = [c \in DOMAIN req |->
                            IF req[c].entry = "direct"
                            THEN [i \in 1..Len(req[c].files) |->
                                     CallerPath(c, i, req[c].files[i].filename)]
                            ELSE << >>]
        /\ output_path = [c \in DOMAIN req |-> NoPath]
        /\ temp_dir = [c \in DOMAIN req |-> NoPath]
        /\ base_xml = [c \in DOMAIN req |-> << >>]
        /\ body_end = [c \in DOMAIN req |-> -1]
        /\ merged_parts = [c \in DOMAIN req |-> << >>]
        /\ exc = [c \in DOMAIN req |-> "none"]
        /\ tmp = [k \in {PathOf(ci) : ci \in given} |->
                     LET ci == CHOOSE x \in given : PathOf(x) = k
                     IN  req[ci[1]].files[ci[2]].data]
        /\ tree = [k \in {} |-> Directory]
        /\ dirs = {}
        /\ store = {}
        /\ owner = [k \in {PathOf(ci) : ci \in given} |->
                       (CHOOSE x \in given : PathOf(x) = k)[1]]
        /\ touched = [c \in DOMAIN req |-> {}]
        /\ fault = [c \in DOMAIN req |-> "none"]

\* One call, of any request.
Init == \E req \in [{1} -> Requests] : InitCalls(req)

\* Several calls at once.  The calls differ in nothing but their number, so
\* of the assignments of requests to calls that differ only in the order of
\* the calls, one is started.
InitConc ==
    \E ix \in [1..MaxCalls -> 1..Len(ConcRequests)] :
        /\ \A c \in 1..(MaxCalls - 1) : ix[c] <= ix[c + 1]
        /\ InitCalls([c \in 1..MaxCalls |-> ConcRequests[ix[c]]])

(***************************************************************************)
(* merge_documents, lines 91-133, merge_docx_files, lines 31-88, and       *)
(* upload_file, lines 137-156.                                             *)
(***************************************************************************)

\* Lines 93-98: the request arrives.  request.files raises
\* RequestEntityTooLarge for a request over the limit, which
\* handle_large_file answers; fewer than 2 files are refused before the try
\* block.
merge_documents(c) ==
    /\ pc[c] = "request"
    /\ IF RequestEntityTooLarge(content_length[c])
       THEN /\ response' = [response EXCEPT ![c] = handle_large_file]
            /\ pc' = [pc EXCEPT ![c] = "done"]
            /\ UNCHANGED idx
       ELSE IF InsufficientInputs(Len(files[c]))
       THEN /\ response' = [response EXCEPT
                   ![c] = error_response("Need at least 2 .docx files", 400)]
            /\ pc' = [pc EXCEPT ![c] = "done"]
            /\ UNCHANGED idx
       ELSE /\ pc' = [pc EXCEPT ![c] = "save"]
            /\ idx' = [idx EXCEPT ![c] = 1]
            /\ UNCHANGED response
    /\ UNCHANGED <<inputVars, uuids, temp_files, merged_path,
                   upload_to_supabase, mergeVars, tmp, tree, dirs, store,
                   owner, touched, fault>>

\* Lines 100-106: one turn of the loop over the uploads.  file.save opens
\* temp_path for writing and copies the upload into it; it can fail before
\* the file exists or after part of it was written, and only a completed
\* save reaches temp_files.append.
save_upload(c) ==
    /\ pc[c] = "save"
    /\ LET file      == files[c][idx[c]]
           temp_path == TempPath(Uuid(c), file.filename)
           last      == idx[c] = Len(files[c])
       IN  IF ~IsDocx(file.filename)
           THEN /\ response' = [response EXCEPT
                       ![c] = error_response("Only .docx files allowed", 400)]
                /\ pc' = [pc EXCEPT ![c] = "finally"]
                /\ UNCHANGED <<idx, uuids, temp_files, tmp, owner, touched,
                               fault>>
           ELSE \E saved \in {"saved", "open failed", "write failed"} :
                /\ uuids' = [uuids EXCEPT ![c] = @ + 1]
                /\ IF saved = "open failed"
                   THEN UNCHANGED <<tmp, owner, touched>>
                   ELSE /\ tmp' = Write(tmp, temp_path,
                                        IF saved = "saved" THEN file.data
                                        ELSE NotZip)
                        /\ owner' = Own(owner, temp_path, c)
                        /\ touched' = Touch(c, {<<"write", temp_path>>})
                /\ IF saved = "saved"
                   THEN /\ temp_files' = [temp_files EXCEPT
                               ![c] = Append(@, temp_path)]
                        /\ idx' = [idx EXCEPT ![c] = @ + 1]
                        /\ pc' = [pc EXCEPT
                               ![c] = IF last THEN "merge" ELSE "save"]
                        /\ UNCHANGED <<response, fault>>
                   ELSE /\ response' = [response EXCEPT
                               ![c] = error_response("OSError", 500)]
                        /\ fault' = [fault EXCEPT ![c] = "save"]
                        /\ pc' = [pc EXCEPT ![c] = "finally"]
                        /\ UNCHANGED <<temp_files, idx>>
    /\ UNCHANGED <<inputVars, merged_path, upload_to_supabase, mergeVars,
                   tree, dirs, store>>

\* Lines 31-38: merge_docx_files is entered (from line 108 with temp_files,
\* or by a direct caller with its own paths), checks the count, names the
\* output and makes the temporary directory.
merge_docx_files(c) ==
    /\ pc[c] = "merge"
    /\ LET paths == IF entry[c] = "http" THEN temp_files[c] ELSE file_paths[c]
       IN  /\ file_paths' = [file_paths EXCEPT ![c] = paths]
           /\ IF InsufficientInputs(Len(paths))
              THEN /\ exc' = [exc EXCEPT
                          ![c] = "ValueError: Need at least 2 files to merge"]
                   /\ pc' = [pc EXCEPT ![c] = "exit"]
                   /\ UNCHANGED <<output_path, temp_dir, dirs, uuids, owner,
                                  touched>>
              ELSE /\ output_path' = [output_path EXCEPT
                          ![c] = OutputPath(Uuid(c))]
                   /\ temp_dir' = [temp_dir EXCEPT ![c] = TempDir(Uuid2(c))]
                   /\ dirs' = dirs \cup {TempDir(Uuid2(c))}
                   /\ owner' = Own(owner, TempDir(Uuid2(c)), c)
                   /\ touched' = Touch(c, {<<"write", TempDir(Uuid2(c))>>})
                   /\ uuids' = [uuids EXCEPT ![c] = @ + 2]
                   /\ pc' = [pc EXCEPT ![c] = "base"]
                   /\ UNCHANGED exc
    /\ UNCHANGED <<inputVars, idx, handlerVars, base_xml, body_end,
                   merged_parts, tmp, tree, store, fault>>

\* Lines 39-51: the base archive is opened and extracted, its document.xml
\* read and split at the last closing body marker.
merge_base(c) ==
    /\ pc[c] = "base"
    /\ LET base_path == file_paths[c][1]
           base_dir  == BaseDir(temp_dir[c])
           present   == base_path \in DOMAIN tmp
           isZip     == present /\ tmp[base_path].zip
           extracted == IF isZip
                        THEN ExtractAll(tree, base_dir, tmp[base_path].entries)
                        ELSE [tree |-> tree, err |-> "none"]
           doc_xml_path == Member(base_dir, PRIMARY)
           opened    == OpenError(extracted.tree, doc_xml_path)
           bytes     == IF opened = "none"
                        THEN extracted.tree[doc_xml_path].data ELSE << >>
           xml       == IF Decodable(bytes) THEN ReadText(bytes) ELSE << >>
           pos       == RFind(xml, BODY_CLOSE)
           raised    == IF ~present THEN "FileNotFoundError"
                        ELSE IF ~isZip THEN "BadZipFile"
                        ELSE IF extracted.err # "none" THEN extracted.err
                        ELSE IF opened # "none" THEN opened
                        ELSE IF ~Decodable(bytes) THEN "UnicodeDecodeError"
                        ELSE IF BaseInvalid(pos)
                             THEN "ValueError: Invalid document structure"
                             ELSE "none"
       IN  /\ touched' = Touch(c, {<<"read", base_path>>})
           /\ tree' = extracted.tree
           /\ base_xml' = [base_xml EXCEPT ![c] = xml]
           /\ body_end' = [body_end EXCEPT ![c] = pos]
           /\ exc' = [exc EXCEPT ![c] = raised]
           /\ IF raised = "none"
              THEN /\ merged_parts' = [merged_parts EXCEPT
                          ![c] = <<SliceTo(xml, pos)>>]
                   /\ idx' = [idx EXCEPT ![c] = 1]
                   /\ pc' = [pc EXCEPT ![c] = "additional"]
              ELSE /\ pc' = [pc EXCEPT ![c] = "exit"]
                   /\ UNCHANGED <<merged_parts, idx>>
    /\ UNCHANGED <<inputVars, uuids, handlerVars, file_paths, output_path,
                   temp_dir, tmp, dirs, store, owner, fault>>

\* Lines 53-73: one turn of the loop over file_paths[1:].
merge_additional(c) ==
    /\ pc[c] = "additional"
    /\ idx[c] <= Len(AdditionalPaths(file_paths[c]))
    /\ LET additional_path == AdditionalPaths(file_paths[c])[idx[c]]
           additional_dir  == AdditionalDir(temp_dir[c], Uuid(c))
           present   == additional_path \in DOMAIN tmp
           isZip     == present /\ tmp[additional_path].zip
           extracted == IF isZip
                        THEN ExtractAll(tree, additional_dir,
                                        tmp[additional_path].entries)
                        ELSE [tree |-> tree, err |-> "none"]
           additional_xml_path == Member(additional_dir, PRIMARY)
           opened    == OpenError(extracted.tree, additional_xml_path)
           bytes     == IF opened = "none"
                        THEN extracted.tree[additional_xml_path].data
                        ELSE << >>
           additional_xml == IF Decodable(bytes) THEN ReadText(bytes)
                             ELSE << >>
           raised    == IF ~present THEN "FileNotFoundError"
                        ELSE IF ~isZip THEN "BadZipFile"
                        ELSE IF extracted.err # "none" THEN extracted.err
                        ELSE IF opened # "none" THEN opened
                        ELSE IF ~Decodable(bytes) THEN "UnicodeDecodeError"
                        ELSE "none"
       IN  /\ uuids' = [uuids EXCEPT ![c] = @ + 1]
           /\ touched' = Touch(c, {<<"read", additional_path>>})
           /\ tree' = extracted.tree
           /\ exc' = [exc EXCEPT ![c] = raised]
           /\ IF raised = "none"
              THEN /\ merged_parts' = [merged_parts EXCEPT
                          ![c] = @ \o Contribution(additional_xml)]
                   /\ idx' = [idx EXCEPT ![c] = @ + 1]
                   /\ UNCHANGED pc
              ELSE /\ pc' = [pc EXCEPT ![c] = "exit"]
                   /\ UNCHANGED <<merged_parts, idx>>
    /\ UNCHANGED <<inputVars, handlerVars, file_paths, output_path, temp_dir,
                   base_xml, body_end, tmp, dirs, store, owner, fault>>

\* Lines 75-79: the rest of the base closes the parts, and the joined text
\* replaces the base's document.xml.
merge_write(c) ==
    /\ pc[c] = "additional"
    /\ idx[c] > Len(AdditionalPaths(file_paths[c]))
    /\ LET parts      == Append(merged_parts[c],
                                SliceFrom(base_xml[c], body_end[c]))
           merged_xml == Join(parts)
           doc_xml_path == Member(BaseDir(temp_dir[c]), PRIMARY)
       IN  /\ merged_parts' = [merged_parts EXCEPT ![c] = parts]
           /\ tree' = Write(tree, doc_xml_path, File(WriteText(merged_xml)))
    /\ pc' = [pc EXCEPT ![c] = "zip"]
    /\ UNCHANGED <<inputVars, idx, uuids, handlerVars, file_paths,
                   output_path, temp_dir, base_xml, body_end, exc, tmp, dirs,
                   store, owner, touched, fault>>

\* Lines 81-86: the output archive is created and every file below base_dir
\* written into it, in the order os.walk finds them.  A write that fails
\* (the disk is full) leaves the file that ZipFile(output_path, 'w')
\* created.
merge_zip(c) ==
    /\ pc[c] = "zip"
    /\ \E written \in BOOLEAN,
          order \in WalkFiles(tree, BaseDir(temp_dir[c]), << >>) :
          /\ tmp' = Write(tmp, output_path[c],
                          IF written
                          THEN Zipped(tree, BaseDir(temp_dir[c]), order)
                          ELSE NotZip)
          /\ exc' = [exc EXCEPT ![c] = IF written THEN "none" ELSE "OSError"]
          /\ fault' = [fault EXCEPT ![c] = IF written THEN @ ELSE "zip"]
    /\ owner' = Own(owner, output_path[c], c)
    /\ touched' = Touch(c, {<<"write", output_path[c]>>})
    /\ pc' = [pc EXCEPT ![c] = "exit"]
    /\ UNCHANGED <<inputVars, idx, uuids, handlerVars, file_paths,
                   output_path, temp_dir, base_xml, body_end, merged_parts,
                   tree, dirs, store>>

\* Lines 38 and 88: the with block ends, which removes the temporary
\* directory, and merge_docx_files returns output_path or lets its exception
\* out; line 108 binds merged_path, lines 128-129 answer an exception.
merge_return(c) ==
    /\ pc[c] = "exit"
    /\ tree' = RemoveTree(tree, temp_dir[c])
    /\ dirs' = dirs \ {temp_dir[c]}
    /\ touched' = Touch(c, IF temp_dir[c] = NoPath THEN {}
                           ELSE {<<"delete", temp_dir[c]>>})
    /\ IF exc[c] = "none"
       THEN /\ merged_path' = [merged_path EXCEPT ![c] = output_path[c]]
            /\ pc' = [pc EXCEPT
                   ![c] = IF entry[c] = "http" THEN "respond" ELSE "done"]
            /\ UNCHANGED response
       ELSE /\ pc' = [pc EXCEPT
                   ![c] = IF entry[c] = "http" THEN "finally" ELSE "done"]
            /\ response' = [response EXCEPT
                   ![c] = IF entry[c] = "http"
                          THEN error_response(exc[c], 500) ELSE @]
            /\ UNCHANGED merged_path
    /\ UNCHANGED <<inputVars, idx, uuids, temp_files, upload_to_supabase,
                   mergeVars, tmp, store, owner, fault>>

\* Lines 109-117 and 126: the form field is read; the merged file is sent
\* back, or, with a client, read and uploaded to the bucket under a new
\* name.  The upload is a call to the store and can fail.
respond(c) ==
    /\ pc[c] = "respond"
    /\ \E form \in BOOLEAN, uploaded \in BOOLEAN :
          /\ upload_to_supabase' = [upload_to_supabase EXCEPT ![c] = form]
          /\ (~form \/ ~supabase) => uploaded
          /\ IF ~form
             THEN /\ response' = [response EXCEPT
                         ![c] = [status |-> 200, error |-> "",
                                 body |-> tmp[merged_path[c]]]]
                  /\ touched' = Touch(c, {<<"read", merged_path[c]>>})
                  /\ pc' = [pc EXCEPT ![c] = "finally"]
                  /\ UNCHANGED <<store, uuids, fault>>
             ELSE IF ~supabase
             THEN /\ response' = [response EXCEPT
                         ![c] = error_response("Supabase not configured", 500)]
                  /\ pc' = [pc EXCEPT ![c] = "finally"]
                  /\ UNCHANGED <<store, uuids, touched, fault>>
             ELSE /\ uuids' = [uuids EXCEPT ![c] = @ + 1]
                  /\ touched' = Touch(c, {<<"read", merged_path[c]>>})
                  /\ IF uploaded
                     THEN /\ store' = store \cup
                                 {StoreObject(Uuid(c), MERGED_NAME,
                                              tmp[merged_path[c]])}
                          /\ pc' = [pc EXCEPT ![c] = "sign"]
                          /\ UNCHANGED <<response, fault>>
                     ELSE /\ response' = [response EXCEPT
                                 ![c] = error_response("StorageException", 500)]
                          /\ fault' = [fault EXCEPT ![c] = "upload"]
                          /\ pc' = [pc EXCEPT ![c] = "finally"]
                          /\ UNCHANGED store
    /\ UNCHANGED <<inputVars, idx, temp_files, merged_path, mergeVars, tmp,
                   tree, dirs, owner>>

\* Lines 139-150: a request to /upload.  Without a client it is refused;
\* request.files raises RequestEntityTooLarge for a request over the limit,
\* which handle_large_file answers; without a file it is refused; else the
\* file is read and uploaded to the bucket under a new name.
upload_file(c) ==
    /\ pc[c] = "upload"
    /\ IF ~supabase
       THEN /\ response' = [response EXCEPT
                   ![c] = error_response("Supabase not configured", 500)]
            /\ pc' = [pc EXCEPT ![c] = "done"]
            /\ UNCHANGED <<store, uuids, fault>>
       ELSE IF RequestEntityTooLarge(content_length[c])
       THEN /\ response' = [response EXCEPT ![c] = handle_large_file]
            /\ pc' = [pc EXCEPT ![c] = "done"]
            /\ UNCHANGED <<store, uuids, fault>>
       ELSE IF files[c] = << >> \/ files[c][1].filename = << >>
       THEN /\ response' = [response EXCEPT
                   ![c] = error_response("No file provided", 400)]
            /\ pc' = [pc EXCEPT ![c] = "done"]
            /\ UNCHANGED <<store, uuids, fault>>
       ELSE /\ uuids' = [uuids EXCEPT ![c] = @ + 1]
            /\ \E uploaded \in BOOLEAN :
                  IF uploaded
                  THEN /\ store' = store \cup
                              {StoreObject(Uuid(c),
                                           secure_filename(files[c][1].filename),
                                           files[c][1].data)}
                       /\ pc' = [pc EXCEPT ![c] = "sign"]
                       /\ UNCHANGED <<response, fault>>
                  ELSE /\ response' = [response EXCEPT
                              ![c] = error_response("StorageException", 500)]
                       /\ fault' = [fault EXCEPT ![c] = "upload"]
                       /\ pc' = [pc EXCEPT ![c] = "done"]
                       /\ UNCHANGED store
    /\ UNCHANGED <<inputVars, idx, temp_files, merged_path,
                   upload_to_supabase, mergeVars, tmp, tree, dirs, owner,
                   touched>>

\* Lines 119-124 and 151-156: the URL of the uploaded object is signed,
\* which is another call to the store and can fail, and the handler
\* answers.
create_signed_url(c) ==
    /\ pc[c] = "sign"
    /\ \E signed \in BOOLEAN :
          /\ response' = [response EXCEPT
                 ![c] = IF signed THEN success_response
                        ELSE error_response("StorageException", 500)]
          /\ fault' = [fault EXCEPT ![c] = IF signed THEN @ ELSE "sign"]
    /\ pc' = [pc EXCEPT ![c] = IF entry[c] = "http" THEN "finally" ELSE "done"]
    /\ UNCHANGED <<inputVars, idx, uuids, temp_files, merged_path,
                   upload_to_supabase, mergeVars, tmp, tree, dirs, store,
                   owner, touched>>

\* Lines 130-133: the finally block removes the saved uploads and, when
\* merged_path is bound, the merged file, each if it exists.
cleanup(c) ==
    /\ pc[c] = "finally"
    /\ LET paths == (Range(temp_files[c]) \cup
                     (IF merged_path[c] = NoPath THEN {}
                      ELSE {merged_path[c]})) \cap DOMAIN tmp
       IN  /\ tmp' = Remove(tmp, paths)
           /\ touched' = Touch(c, {<<"delete", k>> : k \in paths})
    /\ pc' = [pc EXCEPT ![c] = "done"]
    /\ UNCHANGED <<inputVars, idx, uuids, handlerVars, mergeVars, tree, dirs,
                   store, owner, fault>>

Next ==
    \/ \E c \in Calls : merge_documents(c)
    \/ \E c \in Calls : save_upload(c)
    \/ \E c \in Calls : merge_docx_files(c)
    \/ \E c \in Calls : merge_base(c)
    \/ \E c \in Calls : merge_additional(c)
    \/ \E c \in Calls : merge_write(c)
    \/ \E c \in Calls : merge_zip(c)
    \/ \E c \in Calls : merge_return(c)
    \/ \E c \in Calls : respond(c)
    \/ \E c \in Calls : upload_file(c)
    \/ \E c \in Calls : create_signed_url(c)
    \/ \E c \in Calls : cleanup(c)

Spec == Init /\ [][Next]_vars

SpecConc == InitConc /\ [][Next]_vars

(***************************************************************************)
(* What the properties speak of, stated without the code's own steps.      *)
(***************************************************************************)

Occurs(s, sub) == \E p \in 0..(Len(s) - Len(sub)) : MatchAt(s, sub, p)

\* The offset of the first / last occurrence of sub in s, which must occur.
FirstAt(s, sub) ==
    CHOOSE p \in 0..(Len(s) - Len(sub)) :
        MatchAt(s, sub, p) /\ \A q \in 0..(p - 1) : ~MatchAt(s, sub, q)

LastAt(s, sub) ==
    CHOOSE p \in 0..(Len(s) - Len(sub)) :
        MatchAt(s, sub, p)
        /\ \A q \in (p + 1)..(Len(s) - Len(sub)) : ~MatchAt(s, sub, q)

\* The names of the entries of an archive, and of those that are files.
Names(data) == {data.entries[i].name : i \in 1..Len(data.entries)}

FileNames(data) == {n \in Names(data) : n[Len(n)] # ""}

\* The bytes of the entry of that name.
Part(data, name) ==
    data.entries[CHOOSE i \in 1..Len(data.entries) :
                    data.entries[i].name = name].data

\* The archive as a mapping from names to bytes.
Parts(data) == [n \in Names(data) |-> Part(data, n)]

\* A name without the "/" that ends the name of a directory.
Stem(n) == IF n[Len(n)] = "" THEN SubSeq(n, 1, Len(n) - 1) ELSE n

\* The container of the specification: its paths are relative paths in
\* normal form (no empty, "." or ".." component) and unique, and no file
\* stands where another entry needs a directory.
PlainNames(data) ==
    LET E == data.entries
    IN  /\ \A i \in 1..Len(E) :
              /\ Stem(E[i].name) # << >>
              /\ \A k \in 1..Len(Stem(E[i].name)) :
                    Stem(E[i].name)[k] \notin {"", ".", ".."}
        /\ \A i, j \in 1..Len(E) :
              i # j =>
                  /\ Stem(E[i].name) # Stem(E[j].name)
                  /\ E[i].name[Len(E[i].name)] # "" =>
                        \A n \in 1..(Len(Stem(E[j].name)) - 1) :
                            SubSeq(Stem(E[j].name), 1, n) # E[i].name

\* A mergeable container: a zip archive of plain names with a primary part.
ValidContainer(data) ==
    data.zip /\ PlainNames(data) /\ PRIMARY \in FileNames(data)

AllValid(c) ==
    \A i \in 1..Len(files[c]) : ValidContainer(files[c][i].data)

\* The number of additional documents of a call.
N(c) == Len(files[c]) - 1

\* The bytes of the primary part of the i-th input, whether they are UTF-8
\* text, and their text.
RawXml(c, i) == Part(files[c][i].data, PRIMARY)

Readable(c, i) == \A k \in 1..Len(RawXml(c, i)) : Len(RawXml(c, i)[k]) = 1

AllReadable(c) == \A i \in 1..Len(files[c]) : Readable(c, i)

Text(c, i) == ReadText(RawXml(c, i))

BothMarkers(xml) == Occurs(xml, BODY_OPEN) /\ Occurs(xml, BODY_CLOSE)

\* The text between the first opening and the last closing body marker.
Between(xml) ==
    Slice(xml, FirstAt(xml, BODY_OPEN) + Len(BODY_OPEN),
          LastAt(xml, BODY_CLOSE))

\* The body fragment of a document with both markers: the text between
\* them, cut at the last section-properties opening marker (and rid of the
\* white space before it) when what follows that marker ends, white space
\* aside, with the closing marker.
Fragment(xml) ==
    LET body == Between(xml)
    IN  IF Occurs(body, SECT_OPEN)
           /\ EndsWith(Strip(SliceFrom(body, LastAt(body, SECT_OPEN))),
                       SECT_CLOSE)
        THEN RStrip(SliceTo(body, LastAt(body, SECT_OPEN)))
        ELSE body

\* merge_docx_files returned a path to this call.
MergeSucceeded(c) == merged_path[c] # NoPath

\* merge_docx_files was entered, and has returned or raised.
MergeEntered(c) ==
    IF entry[c] = "direct" THEN pc[c] # "merge" ELSE file_paths[c] # << >>

MergeExited(c) ==
    MergeEntered(c) /\ pc[c] \in {"respond", "sign", "finally", "done"}

\* The paths the call has opened for reading.
Opened(c) == {t[2] : t \in {u \in touched[c] : u[1] = "read"}}

\* The parts the additional documents from the k-th on are to contribute:
\* a page break and the fragment for each that has both markers.
RECURSIVE PartsFrom(_, _)
PartsFrom(c, k) ==
    IF k > N(c) THEN << >>
    ELSE (IF BothMarkers(Text(c, k + 1))
          THEN <<page_break, Fragment(Text(c, k + 1))>>
          ELSE << >>) \o PartsFrom(c, k + 1)

\* The same on the bytes as they are in the archives.
RECURSIVE RawPartsFrom(_, _)
RawPartsFrom(c, k) ==
    IF k > N(c) THEN << >>
    ELSE (IF BothMarkers(RawXml(c, k + 1))
          THEN <<page_break, Fragment(RawXml(c, k + 1))>>
          ELSE << >>) \o RawPartsFrom(c, k + 1)

\* The additional documents in which both markers are found.
WithBody(c) == {k \in 1..N(c) : BothMarkers(Text(c, k + 1))}

(***************************************************************************)
(* C1.  The merged word/document.xml is the base XML up to its last        *)
(* closing body marker, then a page break and the body fragment of each    *)
(* additional document in input order, then the base XML from that marker  *)
(* on; the base's text outside the insertion point is unchanged.           *)
(* The code reads and writes the part in text mode, which rewrites every   *)
(* CR LF and CR of the base (and of the fragments) to LF.                  *)
(***************************************************************************)
C1_MergedXmlIsSplice ==
    \A c \in Calls :
        (merged_path[c] \in DOMAIN tmp /\ AllValid(c)) =>
            LET base == RawXml(c, 1)
                at   == LastAt(base, BODY_CLOSE)
            IN  Part(tmp[merged_path[c]], PRIMARY) =
                    SliceTo(base, at) \o Join(RawPartsFrom(c, 1))
                    \o SliceFrom(base, at)

(***************************************************************************)
(* C2.  As claimed: for a valid base container and N >= 1 valid additional *)
(* containers the merge inserts exactly N page breaks.                     *)
(***************************************************************************)
C2_ExactlyNPageBreaks ==
    \A c \in Calls :
        (MergeSucceeded(c) /\ AllValid(c)) =>
            Len(merged_parts[c]) = 2 * N(c) + 2

(***************************************************************************)
(* C2, amended.  When both body markers are found in every additional      *)
(* document, the merge of valid containers inserts exactly N page breaks,  *)
(* one immediately before each additional document's fragment in document  *)
(* order, and none before the base document's body.                        *)
(***************************************************************************)
C2_PageBreakBeforeEachBody ==
    \A c \in Calls :
        (MergeSucceeded(c) /\ AllValid(c) /\ WithBody(c) = 1..N(c)) =>
            /\ Len(merged_parts[c]) = 2 * N(c) + 2
            /\ merged_parts[c][1] =
                   SliceTo(Text(c, 1), LastAt(Text(c, 1), BODY_CLOSE))
            /\ \A k \in 1..N(c) :
                  /\ merged_parts[c][2 * k] = page_break
                  /\ merged_parts[c][2 * k + 1] = Fragment(Text(c, k + 1))

\* A merge of a base and two additional documents, both with a body.
C2_Witness ==
    \E c \in Calls :
        /\ MergeSucceeded(c)
        /\ AllValid(c)
        /\ N(c) = 2
        /\ WithBody(c) = {1, 2}

(***************************************************************************)
(* C10.  What a merge that succeeds has put together: an additional        *)
(* document without both body markers adds neither a page break nor        *)
(* content, the others add theirs in order, and so the page breaks number  *)
(* the additional documents in which both markers were found.              *)
(***************************************************************************)
SkippedWhereUnmatched(c) ==
    (MergeSucceeded(c) /\ AllValid(c)) =>
        /\ merged_parts[c] =
               <<SliceTo(Text(c, 1), LastAt(Text(c, 1), BODY_CLOSE))>>
               \o PartsFrom(c, 1)
               \o <<SliceFrom(Text(c, 1), LastAt(Text(c, 1), BODY_CLOSE))>>
        /\ Cardinality({i \in 2..(Len(merged_parts[c]) - 1) :
                           i % 2 = 0 /\ merged_parts[c][i] = page_break})
               = Cardinality(WithBody(c))

\* The base is one the merge takes, and no output write failed.
BaseTaken(c) ==
    /\ MergeExited(c)
    /\ N(c) >= 1
    /\ AllValid(c)
    /\ Readable(c, 1)
    /\ Occurs(Text(c, 1), BODY_CLOSE)
    /\ fault[c] # "zip"

(***************************************************************************)
(* C10.  As claimed: an additional document whose primary part lacks the   *)
(* literal opening or closing body marker does not fail the merge, it is   *)
(* skipped.  A part that lacks the markers and is no UTF-8 text fails the  *)
(* merge with UnicodeDecodeError.                                          *)
(***************************************************************************)
C10_UnmatchedMarkerNeverFails ==
    \A c \in Calls :
        /\ SkippedWhereUnmatched(c)
        /\ ( /\ BaseTaken(c)
             /\ \A k \in 1..N(c) :
                   Readable(c, k + 1) \/ ~BothMarkers(RawXml(c, k + 1)) )
               => exc[c] = "none"

(***************************************************************************)
(* C10, amended.  In a merge of valid containers whose primary parts are   *)
(* all UTF-8 text and whose base has the closing body marker, an           *)
(* additional document without the literal opening or closing body marker  *)
(* does not fail the merge, which fails only if the output cannot be       *)
(* written: the document adds neither a page break nor content, the others *)
(* add theirs in order, and so the page breaks number the additional       *)
(* documents in which both markers were found.                             *)
(***************************************************************************)
C10_UnmatchedMarkerIsSkipped ==
    \A c \in Calls :
        /\ SkippedWhereUnmatched(c)
        /\ (BaseTaken(c) /\ AllReadable(c)) => exc[c] = "none"

\* A merge that took one additional document and skipped another, which
\* has the closing marker and lacks the opening one.
C10_Witness ==
    \E c \in Calls :
        /\ MergeSucceeded(c)
        /\ AllValid(c)
        /\ N(c) = 2
        /\ WithBody(c) = {1}
        /\ Occurs(Text(c, 3), BODY_CLOSE)
        /\ ~Occurs(Text(c, 3), BODY_OPEN)
        /\ Len(merged_parts[c]) = 4

(***************************************************************************)
(* C3.  The archives a call has put out: the file it returned, and the     *)
(* body it sent.                                                           *)
(***************************************************************************)
Outputs(c) ==
    (IF merged_path[c] \in DOMAIN tmp THEN {tmp[merged_path[c]]} ELSE {})
    \cup (IF response[c].status = 200 /\ entry[c] = "http"
             /\ ~upload_to_supabase[c]
          THEN {response[c].body} ELSE {})

(***************************************************************************)
(* C3.  As claimed: the output archive has an entry for every file entry   *)
(* of the base archive, and every entry other than word/document.xml has   *)
(* the bytes of the base archive's entry at the same path.                 *)
(* Extraction drops the empty, "." and ".." components of a name, so an    *)
(* entry "../evil.txt" of the base is in the output as "evil.txt".         *)
(***************************************************************************)
C3_EveryBaseEntryKept ==
    \A c \in Calls :
        \A out \in Outputs(c) :
            /\ out.zip
            /\ FileNames(files[c][1].data) \subseteq Names(out)
            /\ \A a \in Names(out) \ {PRIMARY} :
                  /\ a \in FileNames(files[c][1].data)
                  /\ Part(out, a) = Part(files[c][1].data, a)

(***************************************************************************)
(* C3, amended.  When the names of the base archive's entries are unique   *)
(* relative paths in normal form, the output archive has the base          *)
(* archive's file entries and no others, and each one but                  *)
(* word/document.xml has the base's bytes, whatever the additional         *)
(* archives hold.                                                          *)
(***************************************************************************)
C3_OtherPartsAreTheBases ==
    \A c \in Calls :
        \A out \in Outputs(c) :
            PlainNames(files[c][1].data) =>
                /\ out.zip
                /\ Names(out) = FileNames(files[c][1].data)
                /\ Len(out.entries) = Cardinality(Names(out))
                /\ \A a \in Names(out) \ {PRIMARY} :
                      Part(out, a) = Part(files[c][1].data, a)

\* A merged archive was sent whose additional documents had parts the base
\* lacks, one of them with names that climb towards the base's directory.
C3_Witness ==
    \E c \in Calls :
        /\ response[c].status = 200
        /\ entry[c] = "http"
        /\ ~upload_to_supabase[c]
        /\ PlainNames(files[c][1].data)
        /\ N(c) = 2
        /\ <<"word", "media", "image1.png">> \in Names(files[c][2].data)
        /\ <<"..", "base", "word", "styles.xml">> \in Names(files[c][3].data)

(***************************************************************************)
(* C4.  A section-properties block is the text from an opening             *)
(* <w:sectPr ...> tag to the closing tag that matches it.                  *)
(***************************************************************************)

\* An opening tag of the element w:sectPr itself (not w:sectPrChange, not
\* the empty-element tag <w:sectPr/>) starts at offset p.
SectStartsAt(s, p) ==
    /\ MatchAt(s, SECT_OPEN, p)
    /\ p + Len(SECT_OPEN) < Len(s)
    /\ s[p + Len(SECT_OPEN) + 1] \in {">", " "}
    /\ \E q \in (p + Len(SECT_OPEN) + 1)..Len(s) :
          /\ s[q] = ">"
          /\ s[q - 1] # "/"
          /\ \A r \in (p + Len(SECT_OPEN) + 1)..(q - 1) : s[r] # ">"

SectEndsAt(s, p) == MatchAt(s, SECT_CLOSE, p)

\* The offsets from which the text up to offset e holds one more opening
\* than closing tag: the largest is where the block closed at e starts.
BlockStarts(s, e) ==
    {p \in 0..(e - 1) :
        /\ SectStartsAt(s, p)
        /\ Cardinality({q \in p..(e - 1) : SectStartsAt(s, q)})
               = Cardinality({q \in p..(e - 1) : SectEndsAt(s, q)}) + 1}

\* The fragment ends, white space aside, with a section-properties block.
EndsWithSectPr(body) ==
    /\ EndsWith(RStrip(body), SECT_CLOSE)
    /\ BlockStarts(body, Len(RStrip(body)) - Len(SECT_CLOSE)) # {}

TrailingSectPrStart(body) ==
    LET starts == BlockStarts(body, Len(RStrip(body)) - Len(SECT_CLOSE))
    IN  CHOOSE p \in starts : \A q \in starts : q <= p

\* Where in merged_parts the fragment of the k-th additional document is.
FragmentIndex(c, k) == 1 + 2 * Cardinality({j \in WithBody(c) : j <= k})

(***************************************************************************)
(* C4.  For every additional document whose body fragment ends (white      *)
(* space aside) with a section-properties block, the whole block is        *)
(* removed from the fragment before it is inserted.                        *)
(* The code cuts at the last "<w:sectPr", which is inside the block when   *)
(* the block holds another sectPr.                                         *)
(***************************************************************************)
C4_TrailingSectPrRemoved ==
    \A c \in Calls :
        (MergeSucceeded(c) /\ AllValid(c)) =>
            \A k \in WithBody(c) :
                LET body == Between(Text(c, k + 1))
                IN  EndsWithSectPr(body) =>
                        merged_parts[c][FragmentIndex(c, k)] =
                            RStrip(SliceTo(body, TrailingSectPrStart(body)))

(***************************************************************************)
(* C5.  A merge call with 0 or 1 documents at no time opens or saves an    *)
(* input or makes a temporary directory, a temporary file or an output     *)
(* file.                                                                   *)
(***************************************************************************)
NothingMade(c) ==
    /\ touched[c] = {}
    /\ uuids[c] = 0
    /\ temp_dir[c] = NoPath
    /\ dirs \cap {d \in dirs : owner[d] = c} = {}
    /\ \A k \in DOMAIN tmp : owner[k] = c => k[1] = "caller"

(***************************************************************************)
(* C5.  As claimed: a merge call with 0 or 1 documents fails with the      *)
(* error for too few inputs (ValueError from merge_docx_files, 400 from    *)
(* /merge) before anything is opened, saved or made.                       *)
(* A request to /merge over MAX_CONTENT_LENGTH is answered 413 by          *)
(* handle_large_file, whatever the number of its documents.                *)
(***************************************************************************)
C5_TooFewInputsAlwaysRefused ==
    \A c \in Calls :
        (entry[c] # "upload" /\ Len(files[c]) < 2) =>
            /\ NothingMade(c)
            /\ pc[c] = "done" =>
                  IF entry[c] = "http"
                  THEN response[c] =
                           error_response("Need at least 2 .docx files", 400)
                  ELSE exc[c] = "ValueError: Need at least 2 files to merge"

(***************************************************************************)
(* C5, amended.  A merge call with 0 or 1 documents fails before anything  *)
(* is opened, saved or made: merge_docx_files with the ValueError for too  *)
(* few inputs, /merge with 400 for too few inputs when the request is      *)
(* within MAX_CONTENT_LENGTH, and with 413 "File too large (max 10MB)"     *)
(* when it is over.                                                        *)
(***************************************************************************)
C5_TooFewInputsRefusedFirst ==
    \A c \in Calls :
        (entry[c] # "upload" /\ Len(files[c]) < 2) =>
            /\ NothingMade(c)
            /\ pc[c] = "done" =>
                  IF entry[c] = "direct"
                  THEN exc[c] = "ValueError: Need at least 2 files to merge"
                  ELSE IF content_length[c] <= MAX_CONTENT_LENGTH
                  THEN response[c] =
                           error_response("Need at least 2 .docx files", 400)
                  ELSE response[c] =
                           error_response("File too large (max 10MB)", 413)

\* A request to /merge with a single document, within the limit, was
\* refused.
C5_Witness ==
    \E c \in Calls :
        /\ pc[c] = "done"
        /\ Len(files[c]) = 1
        /\ entry[c] = "http"
        /\ content_length[c] <= MAX_CONTENT_LENGTH
        /\ response[c].status = 400

(***************************************************************************)
(* C6.  When an input of a merge, at any position, is no zip archive, the  *)
(* merge ends with an error, returns no path, and leaves no output file.   *)
(***************************************************************************)
C6_CorruptInputNoOutput ==
    \A c \in Calls :
        ( /\ MergeExited(c)
          /\ \E i \in 1..Len(files[c]) : ~files[c][i].data.zip ) =>
            /\ exc[c] # "none"
            /\ merged_path[c] = NoPath
            /\ output_path[c] \notin DOMAIN tmp
            /\ \A k \in DOMAIN tmp : owner[k] = c => k[1] # "merged"

\* A merge failed on a third input that is no archive, after a base and a
\* second document were taken.
C6_Witness ==
    \E c \in Calls :
        /\ MergeExited(c)
        /\ Len(files[c]) = 3
        /\ ~files[c][3].data.zip
        /\ exc[c] = "BadZipFile"
        /\ Len(merged_parts[c]) = 3

(***************************************************************************)
(* C7.  As claimed: a base whose body boundaries (both markers) cannot be  *)
(* located fails the merge with "Invalid document structure" before any    *)
(* additional document is opened and with no output written; a merge that  *)
(* succeeds had a base in which both markers were found.                   *)
(***************************************************************************)
NothingBeyondBase(c) ==
    /\ exc[c] = "ValueError: Invalid document structure"
    /\ Opened(c) \cap Range(AdditionalPaths(file_paths[c])) = {}
    /\ output_path[c] \notin DOMAIN tmp
    /\ <<"write", output_path[c]>> \notin touched[c]

C7_BothBoundariesRequired ==
    \A c \in Calls :
        /\ ( /\ MergeExited(c)
             /\ N(c) >= 1
             /\ ValidContainer(files[c][1].data)
             /\ ~BothMarkers(Text(c, 1)) ) => NothingBeyondBase(c)
        /\ (MergeSucceeded(c) /\ ValidContainer(files[c][1].data)) =>
              BothMarkers(Text(c, 1))

(***************************************************************************)
(* C7, amended.  A base that is a valid container and whose primary part   *)
(* is UTF-8 text without the closing body marker fails the merge with      *)
(* "Invalid document structure" before any additional document is opened   *)
(* and with no output written; a merge that succeeds on a base that is a   *)
(* valid container had a base part of UTF-8 text in which the closing body *)
(* marker was found.                                                       *)
(***************************************************************************)
C7_ClosingMarkerRequired ==
    \A c \in Calls :
        /\ ( /\ MergeExited(c)
             /\ N(c) >= 1
             /\ ValidContainer(files[c][1].data)
             /\ Readable(c, 1)
             /\ ~Occurs(Text(c, 1), BODY_CLOSE) ) => NothingBeyondBase(c)
        /\ (MergeSucceeded(c) /\ ValidContainer(files[c][1].data)) =>
              Readable(c, 1) /\ Occurs(Text(c, 1), BODY_CLOSE)

\* A merge was refused for its base, which has no closing body marker.
C7_Witness ==
    \E c \in Calls :
        /\ MergeExited(c)
        /\ N(c) = 2
        /\ ValidContainer(files[c][1].data)
        /\ Readable(c, 1)
        /\ ~Occurs(Text(c, 1), BODY_CLOSE)
        /\ exc[c] = "ValueError: Invalid document structure"

(***************************************************************************)
(* C8.  When the /merge handler has returned, by whatever path, none of    *)
(* the files and directories the request made under /tmp exists.           *)
(* A save that fails part-way leaves its file, which never reached         *)
(* temp_files; a failed write of the output archive leaves the output,     *)
(* whose path never reached merged_path.                                   *)
(***************************************************************************)
C8_TempStateReleased ==
    \A c \in Calls :
        (entry[c] = "http" /\ pc[c] = "done") =>
            /\ \A k \in DOMAIN tmp : owner[k] # c
            /\ \A d \in dirs : owner[d] # c
            /\ \A k \in DOMAIN tree : owner[k[1]] # c

(***************************************************************************)
(* C9.  What a call does when it runs alone, from its inputs and the I/O   *)
(* failure it met, for inputs that are no archive or an archive of plain   *)
(* names.                                                                  *)
(***************************************************************************)

PlainInputs(c) ==
    \A i \in 1..Len(files[c]) :
        ~files[c][i].data.zip \/ PlainNames(files[c][i].data)

\* What the i-th input makes the merge raise.
AloneInputExc(c, i) ==
    LET data == files[c][i].data
    IN  IF ~data.zip THEN "BadZipFile"
        ELSE IF PRIMARY \notin FileNames(data)
             THEN (IF <<"word">> \in FileNames(data)
                   THEN "NotADirectoryError"
                   ELSE IF PRIMARY \o <<"">> \in Names(data)
                        THEN "IsADirectoryError"
                        ELSE "FileNotFoundError")
        ELSE IF ~Readable(c, i) THEN "UnicodeDecodeError"
        ELSE IF i = 1 /\ ~Occurs(Text(c, 1), BODY_CLOSE)
             THEN "ValueError: Invalid document structure"
        ELSE "none"

AloneExc(c) ==
    LET bad == {i \in 1..Len(files[c]) : AloneInputExc(c, i) # "none"}
    IN  IF Len(files[c]) < 2
        THEN "ValueError: Need at least 2 files to merge"
        ELSE IF bad # {}
             THEN AloneInputExc(c, CHOOSE i \in bad : \A j \in bad : i <= j)
        ELSE IF fault[c] = "zip" THEN "OSError"
        ELSE "none"

\* The merged archive, as a mapping from names to bytes.
AloneParts(c) ==
    LET base == files[c][1].data
        at   == LastAt(Text(c, 1), BODY_CLOSE)
    IN  [a \in FileNames(base) |->
            IF a = PRIMARY
            THEN SliceTo(Text(c, 1), at) \o Join(PartsFrom(c, 1))
                 \o SliceFrom(Text(c, 1), at)
            ELSE Part(base, a)]

IsAloneArchive(c, data) == data.zip /\ Parts(data) = AloneParts(c)

\* The status and the error of the answer to a request.
AloneAnswer(c) ==
    IF entry[c] = "upload"
    THEN (IF ~supabase THEN error_response("Supabase not configured", 500)
          ELSE IF content_length[c] > MAX_CONTENT_LENGTH
               THEN error_response("File too large (max 10MB)", 413)
          ELSE IF files[c] = << >> \/ files[c][1].filename = << >>
               THEN error_response("No file provided", 400)
          ELSE IF fault[c] # "none"
               THEN error_response("StorageException", 500)
          ELSE success_response)
    ELSE IF content_length[c] > MAX_CONTENT_LENGTH
    THEN error_response("File too large (max 10MB)", 413)
    ELSE IF Len(files[c]) < 2
    THEN error_response("Need at least 2 .docx files", 400)
    ELSE IF fault[c] = "save" THEN error_response("OSError", 500)
    ELSE IF \E i \in 1..Len(files[c]) : ~IsDocx(files[c][i].filename)
         THEN error_response("Only .docx files allowed", 400)
    ELSE IF AloneExc(c) # "none" THEN error_response(AloneExc(c), 500)
    ELSE IF upload_to_supabase[c] /\ ~supabase
         THEN error_response("Supabase not configured", 500)
    ELSE IF upload_to_supabase[c] /\ fault[c] \in {"upload", "sign"}
         THEN error_response("StorageException", 500)
    ELSE success_response

(***************************************************************************)
(* C9.  With calls running at once in any interleaving, also on uploads    *)
(* of the same name and beside requests to /upload, no call reads,         *)
(* overwrites or deletes a file or directory another call made, and each   *)
(* call's result is the one it gives alone.                                *)
(***************************************************************************)
C9_CallsIsolated ==
    \A c \in Calls :
        PlainInputs(c) =>
            /\ \A t \in touched[c] : t[2] \in DOMAIN owner /\ owner[t[2]] = c
            /\ MergeExited(c) => exc[c] = AloneExc(c)
            /\ merged_path[c] \in DOMAIN tmp =>
                  IsAloneArchive(c, tmp[merged_path[c]])
            /\ (entry[c] # "direct" /\ pc[c] = "done") =>
                  /\ [response[c] EXCEPT !.body = NotZip] = AloneAnswer(c)
                  /\ IF response[c].status = 200 /\ entry[c] = "http"
                        /\ ~upload_to_supabase[c]
                     THEN IsAloneArchive(c, response[c].body)
                     ELSE response[c].body = NotZip
            /\ \A o \in store :
                  o.filename[1][1] = c =>
                      IF entry[c] = "upload"
                      THEN o.data = files[c][1].data
                      ELSE IsAloneArchive(c, o.data)

\* One call is writing its output while another, given other documents
\* under the same file names, has answered and not yet cleaned up.
C9_Witness ==
    \E c, d \in Calls :
        /\ c # d
        /\ pc[c] = "zip"
        /\ pc[d] = "finally"
        /\ response[d].status = 200
        /\ files[c] # files[d]
        /\ files[c][1].filename = files[d][1].filename
        /\ entry[c] = "http" /\ entry[d] = "http"

====
